---- MODULE Spec2Model ----
(***************************************************************************)
(* Datumaro dataset conversion: the YOLO (line format) converter, the      *)
(* TF Detection API (record format) converter, the COCO importer and the   *)
(* COCO extractor's label resolution and RLE mask equality.                *)
(*                                                                         *)
(* Conventions.  Python None and "absent" are the empty sequence <<>>, a   *)
(* present value v is <<v>>.  A text is a sequence of one-character        *)
(* strings; a text file is the sequence of its lines.  Paths are strings   *)
(* relative to save_dir.  Pixel coordinates are integers; a quotient is    *)
(* kept exact (numerator, denominator) until it is formatted.              *)
(***************************************************************************)
EXTENDS Integers, Sequences, FiniteSets, TLC

VARIABLES
    converter,      \* which converter object is called: "yolo", "tf" or "none"
    save_images,    \* the converter's save_images option
    extractor,      \* the source: [categories, subsets, items]
    subsets,        \* local `subsets` of __call__ (after the zero-subset rule)
    si,             \* position of the `for subset_name in subsets` loop
    ii,             \* position of the `for item in subset` loop
    pc,             \* where __call__ is: start, subset, item, done, failed
    error,          \* the exception that ended __call__, <<>> if none
    fs,             \* files under save_dir: path -> content
    dirs,           \* directories made under save_dir
    image_paths,    \* local OrderedDict of the subset being written (yolo)
    subset_lists,   \* local OrderedDict subset name -> list file (yolo)
    warnings,       \* log.warn calls, in order
    \* importers/ms_coco.py: CocoImporter.__call__(path, **extra_params)
    ann_dir,        \* the annotations directory: None if absent, else
                    \* Some(os.listdir(ann_dir)), names in listing order
    extra_params,   \* the pass-through options
    imp_pc,         \* where __call__ is: idle, start, scan, check, add, done, failed
    fi,             \* position of the `for ann_file in os.listdir` loop
    found,          \* `subsets` of find_subsets: subset -> (task -> path)
    ri,             \* position of the add_source loops, over FoundPairs
    sources,        \* project sources: name -> configuration
    imp_error,      \* the exception that ended __call__, None if none
    \* extractors/ms_coco.py: CocoExtractor
    _task,          \* self._task, the task of the one loader
    dataset,        \* the loader's JSON: [categories, annotations] of one image
    _categories,    \* self._categories[AnnotationType.label]: names, or None
    _label_map,     \* self._label_map: category id -> index, or None
    ext_pc,         \* idle, new, constructed, fetched, failed; loaders and
                    \* loaded around a call of _load_categories
    fetched,        \* the annotations of the item _get returned, or None
    ext_error,      \* the exception that ended _get, None if none
    _merge_instance_polygons,   \* self._merge_instance_polygons
    loaders,        \* `loaders` of _load_categories: task -> loader, the
                    \* loaders of every subset
    \* extractors/ms_coco.py: RleMask.__eq__(self, other)
    masks,          \* <<self, other>>
    eq_result       \* what the comparison returned, None before it

convVars == <<converter, save_images, extractor, subsets, si, ii, pc, error,
              fs, dirs, image_paths, subset_lists, warnings>>

\* the state of the importer, the extractor and the mask comparison
impVars == <<ann_dir, extra_params, imp_pc, fi, found, ri, sources, imp_error>>

extVars == <<_task, dataset, _categories, _label_map, ext_pc, fetched, ext_error,
             _merge_instance_polygons, loaders>>

maskVars == <<masks, eq_result>>

notConvVars == <<impVars, extVars, maskVars>>
notImpVars == <<convVars, extVars, maskVars>>
notExtVars == <<convVars, impVars, maskVars>>
notMaskVars == <<convVars, impVars, extVars>>

vars == <<convVars, notConvVars>>

None == <<>>
Some(v) == <<v>>

(***************************************************************************)
(* Bounds of the model.                                                    *)
(***************************************************************************)
MaxDim == 3         \* small image widths and heights are 1..MaxDim
MaxCoord == 2       \* small pixel coordinates are 0..MaxCoord
MaxItems == 2       \* items of an extractor
MaxAnns == 2        \* annotations of an item
MaxSubsets == 3     \* subsets an extractor declares
MaxLabels == 2      \* names of a label table
MaxFiles == 3       \* files of an annotations directory
MaxCatId == 3       \* category ids are 0..MaxCatId
MaxRuns == 3        \* runs of a run-length encoding
MaxParts == 2       \* polygon parts of a segmentation

(***************************************************************************)
(* Text helpers.                                                           *)
(***************************************************************************)
RECURSIVE DigitsOf(_)
\* '%s' % n / the integer part of '%f': the decimal digits of n >= 0
DigitsOf(n) ==
    IF n < 10 THEN <<ToString(n)>>
    ELSE DigitsOf(n \div 10) \o <<ToString(n % 10)>>

RECURSIVE Join(_)
\* the string a text spells
Join(t) == IF t = <<>> THEN "" ELSE Head(t) \o Join(Tail(t))

RECURSIVE Flatten(_, _)
\* sep.join(parts) for texts
Flatten(parts, sep) ==
    IF parts = <<>> THEN <<>>
    ELSE IF Len(parts) = 1 THEN Head(parts)
    ELSE Head(parts) \o sep \o Flatten(Tail(parts), sep)

\* OrderedDict assignment d[k] = v on a sequence of <<key, value>> pairs:
\* an existing key keeps its position and takes the new value.
OdSet(d, k, v) ==
    IF \E i \in 1..Len(d) : d[i][1] = k
    THEN [i \in 1..Len(d) |-> IF d[i][1] = k THEN <<k, v>> ELSE d[i]]
    ELSE Append(d, <<k, v>>)

OdKeys(d) == [i \in 1..Len(d) |-> d[i][1]]
OdValues(d) == [i \in 1..Len(d) |-> d[i][2]]

(***************************************************************************)
(* yolo.py: _make_yolo_bbox and the '%.6f' formatting of its results.      *)
(***************************************************************************)
\* A quotient num/den of the float arithmetic, kept exact.
Q(num, den) == [num |-> num, den |-> den]

\* _make_yolo_bbox with every value normalized by the width
_make_yolo_bbox_by_width(img_size, box) ==
    << [num |-> box[1] + box[3], den |-> 2 * img_size[1]],
       [num |-> box[2] + box[4], den |-> 2 * img_size[1]],
       [num |-> box[3] - box[1], den |-> img_size[1]],
       [num |-> box[4] - box[2], den |-> img_size[1]] >>

\* _make_yolo_bbox(img_size, box): img_size = (width, height),
\* box = (x1, y1, x2, y2); returns (x, y, w, h).
_make_yolo_bbox(img_size, box) ==
    << Q(box[1] + box[3], 2 * img_size[1]),
       Q(box[2] + box[4], 2 * img_size[2]),
       Q(box[3] - box[1], img_size[1]),
       Q(box[4] - box[2], img_size[2]) >>

\* round(num/den) to the nearest integer, ties to even (num >= 0, den > 0)
RoundHalfEven(num, den) ==
    LET q == num \div den
        r == num % den
    IN  IF 2 * r < den THEN q
        ELSE IF 2 * r > den THEN q + 1
        ELSE IF q % 2 = 0 THEN q ELSE q + 1

Million == 1000000

\* '%.5f' in place of '%.6f'
Micro5(q) == 10 * RoundHalfEven(q.num * 100000, q.den)

\* the number of millionths '%.6f' % (num/den) prints
Micro(q) == RoundHalfEven(q.num * Million, q.den)

\* the six fractional digits of m millionths, zero padded
Frac6(m) ==
    LET d == DigitsOf(m % Million)
    IN  [i \in 1..(6 - Len(d)) |-> "0"] \o d

\* '%.6f' % p for p = num/den >= 0
Format6(q) ==
    LET m == Micro(q)
    IN  DigitsOf(m \div Million) \o <<".">> \o Frac6(m)

(***************************************************************************)
(* The source interface: subsets(), get_subset(name), iteration.           *)
(***************************************************************************)
\* an unnamed subset: a falsy name (None or '')
NoName == ""

\* extractor.get_subset(name): the items of that subset, in order
get_subset(name) == SelectSeq(extractor.items, LAMBDA it : it.subset = name)

\* item.has_image
has_image(item) == item.image /= None

(***************************************************************************)
(* formats/yolo.py: YoloPath                                               *)
(***************************************************************************)
YoloPath_SUBSET_NAMES == {"train", "valid"}
YoloPath_DEFAULT_SUBSET_NAME == "train"

(***************************************************************************)
(* yolo.py: YoloConverter.__call__                                         *)
(***************************************************************************)
\* label_ids = {label.name: idx for idx, label in enumerate(items)}
RECURSIVE NameDict(_, _, _)
NameDict(names, base, d) ==
    IF names = <<>> THEN d
    ELSE NameDict(Tail(names), base + 1, OdSet(d, Head(names), base))

yolo_label_ids(categories) == NameDict(categories, 0, <<>>)

\* sorted(d.items(), key=value) for a dict with distinct integer values
RECURSIVE SortedByValue(_)
SortedByValue(d) ==
    IF d = <<>> THEN <<>>
    ELSE LET m == CHOOSE i \in 1..Len(d) :
                    \A j \in 1..Len(d) : d[i][2] <= d[j][2]
         IN  <<d[m]>> \o
             SortedByValue([j \in 1..(Len(d) - 1) |->
                                IF j < m THEN d[j] ELSE d[j + 1]])

\* the lines of obj.names
ObjNames(categories) == OdKeys(SortedByValue(yolo_label_ids(categories)))

\* the whitelist test of line 53 left out
ExportNameAny(subset_name) ==
    IF subset_name /= NoName THEN Some(subset_name)
    ELSE Some(YoloPath_DEFAULT_SUBSET_NAME)

\* lines 53-63: the name a subset is exported under, None if it is skipped
ExportName(subset_name) ==
    IF subset_name /= NoName /\ subset_name \in YoloPath_SUBSET_NAMES
        THEN Some(subset_name)
    ELSE IF subset_name = NoName THEN Some(YoloPath_DEFAULT_SUBSET_NAME)
    ELSE None

\* lines 54 and 57: what the loop over the subset iterates
SubsetItems(subset_name) ==
    IF subset_name /= NoName THEN get_subset(subset_name)
    ELSE extractor.items

SubsetDir(name) == "obj_" \o name \o "_data"
AnnotationPath(name, id) == SubsetDir(name) \o "/" \o ToString(id) \o ".txt"
ImagePath(name, id) == SubsetDir(name) \o "/" \o ToString(id) \o ".jpg"
ListedPath(name, id) == "data/" \o SubsetDir(name) \o "/" \o ToString(id) \o ".jpg"
SubsetListName(name) == name \o ".txt"

\* lines 89-91: the line of one labelled bbox
YoloLine(width, height, bbox) ==
    LET yolo_bb == _make_yolo_bbox(<<width, height>>, bbox.points)
    IN  DigitsOf(bbox.label[1]) \o <<" ">> \o
        Flatten([i \in 1..4 |-> Format6(yolo_bb[i])], <<" ">>)

\* lines 82-91: the lines of an item's annotation file
RECURSIVE YoloAnnotation(_, _, _)
YoloAnnotation(width, height, anns) ==
    IF anns = <<>> THEN <<>>
    ELSE LET bbox == Head(anns)
             rest == YoloAnnotation(width, height, Tail(anns))
         IN  IF bbox.type /= "bbox" THEN rest
             ELSE IF bbox.label = None THEN rest
             ELSE <<YoloLine(width, height, bbox)>> \o rest

Put(files, path, content) == (path :> content) @@ files

\* the zero-subset rule left out
SubsetsAsDeclared(declared) == declared

\* yolo.py lines 46-48, tfrecord.py lines 114-116: no declared subset gives
\* the one unnamed subset [ None ]
SubsetsOrUnnamed(declared) ==
    IF Len(declared) = 0 THEN <<NoName>> ELSE declared

\* lines 37-50
YoloStart ==
    /\ converter = "yolo"
    /\ pc = "start"
    /\ fs' = Put(fs, "obj.names", ObjNames(extractor.categories))
    /\ subsets' = SubsetsOrUnnamed(extractor.subsets)
    /\ subset_lists' = <<>>
    /\ si' = 1
    /\ pc' = "subset"
    /\ UNCHANGED notConvVars
    /\ UNCHANGED <<converter, save_images, extractor, ii, error, dirs,
                   image_paths, warnings>>

\* lines 52-57, 65-68: an exported subset is entered
YoloSubsetAccept ==
    /\ converter = "yolo"
    /\ pc = "subset"
    /\ si <= Len(subsets)
    /\ ExportName(subsets[si]) /= None
    /\ dirs' = dirs \cup {SubsetDir(ExportName(subsets[si])[1])}
    /\ image_paths' = <<>>
    /\ ii' = 1
    /\ pc' = "item"
    /\ UNCHANGED notConvVars
    /\ UNCHANGED <<converter, save_images, extractor, subsets, si, error, fs,
                   subset_lists, warnings>>

\* lines 58-63: any other subset is skipped with a warning
YoloSubsetSkip ==
    /\ converter = "yolo"
    /\ pc = "subset"
    /\ si <= Len(subsets)
    /\ ExportName(subsets[si]) = None
    /\ warnings' = Append(warnings, "Skipping subset export '" \o subsets[si] \o "'")
    /\ si' = si + 1
    /\ UNCHANGED notConvVars
    /\ UNCHANGED <<converter, save_images, extractor, subsets, ii, pc, error,
                   fs, dirs, image_paths, subset_lists>>

\* lines 70-95: one item with an image is written
YoloItem ==
    /\ converter = "yolo"
    /\ pc = "item"
    /\ ii <= Len(SubsetItems(subsets[si]))
    /\ LET item == SubsetItems(subsets[si])[ii]
           name == ExportName(subsets[si])[1]
           saved == IF save_images /\ ImagePath(name, item.id) \notin DOMAIN fs
                    THEN Put(fs, ImagePath(name, item.id), item.image)
                    ELSE fs
       IN  /\ has_image(item)
           /\ image_paths' = OdSet(image_paths, item.id, ListedPath(name, item.id))
           /\ fs' = Put(saved, AnnotationPath(name, item.id),
                        YoloAnnotation(item.image[2], item.image[1],
                                       item.annotations))
    /\ ii' = ii + 1
    /\ UNCHANGED notConvVars
    /\ UNCHANGED <<converter, save_images, extractor, subsets, si, pc, error,
                   dirs, subset_lists, warnings>>

\* lines 78 and 80: an item without an image has no pixels to save and no
\* shape: item.image is None and the attribute access raises
YoloItemFail ==
    /\ converter = "yolo"
    /\ pc = "item"
    /\ ii <= Len(SubsetItems(subsets[si]))
    /\ ~has_image(SubsetItems(subsets[si])[ii])
    /\ pc' = "failed"
    /\ error' = Some("AttributeError")
    /\ UNCHANGED notConvVars
    /\ UNCHANGED <<converter, save_images, extractor, subsets, si, ii, fs,
                   dirs, image_paths, subset_lists, warnings>>

\* lines 97-100: the subset's list file
YoloSubsetClose ==
    /\ converter = "yolo"
    /\ pc = "item"
    /\ ii > Len(SubsetItems(subsets[si]))
    /\ LET name == ExportName(subsets[si])[1]
       IN  /\ subset_lists' = OdSet(subset_lists, name, SubsetListName(name))
           /\ fs' = Put(fs, SubsetListName(name), OdValues(image_paths))
    /\ si' = si + 1
    /\ pc' = "subset"
    /\ UNCHANGED notConvVars
    /\ UNCHANGED <<converter, save_images, extractor, subsets, ii, error, dirs,
                   image_paths, warnings>>

\* lines 102-110: obj.data
ObjData(categories, lists) ==
    <<"classes = " \o ToString(Len(yolo_label_ids(categories)))>> \o
    [i \in 1..Len(lists) |-> lists[i][1] \o " = data/" \o lists[i][2]] \o
    <<"names = data/obj.names", "backup = backup/">>

YoloFinish ==
    /\ converter = "yolo"
    /\ pc = "subset"
    /\ si > Len(subsets)
    /\ fs' = Put(fs, "obj.data", ObjData(extractor.categories, subset_lists))
    /\ pc' = "done"
    /\ UNCHANGED notConvVars
    /\ UNCHANGED <<converter, save_images, extractor, subsets, si, ii, error,
                   dirs, image_paths, subset_lists, warnings>>

NextYolo ==
    \/ YoloStart
    \/ YoloSubsetAccept
    \/ YoloSubsetSkip
    \/ YoloItem
    \/ YoloItemFail
    \/ YoloSubsetClose
    \/ YoloFinish

(***************************************************************************)
(* extractor.py: DEFAULT_SUBSET_NAME; formats/tfrecord.py: DetectionApiPath*)
(***************************************************************************)
DEFAULT_SUBSET_NAME == "default"
LABELMAP_FILE == "label_map.pbtxt"
IMAGE_EXT == ".jpg"
IMAGE_FORMAT == "jpeg"

(***************************************************************************)
(* tfrecord.py                                                             *)
(***************************************************************************)
\* string.printable, as far as the model's names go
_printable == {"a", "c", "d", "g", "o", "t"}

_make_printable(s) == SelectSeq(s, LAMBDA x : x \in _printable)

\* line 126: get_label
get_label(categories, label_id) ==
    IF label_id /= None THEN categories[label_id[1] + 1] ELSE <<>>

\* line 128: label_ids = OrderedDict((label.name, 1 + idx) ...)
tf_label_ids(categories) == NameDict(categories, 1, <<>>)

\* dict.get(key, default)
DictGet(d, k, default) ==
    IF \E i \in 1..Len(d) : d[i][1] = k
    THEN d[CHOOSE i \in 1..Len(d) : d[i][1] = k][2]
    ELSE default

\* line 130: map_label_id
map_label_id(categories, label_id) ==
    DictGet(tf_label_ids(categories), get_label(categories, label_id), 0)

\* lines 133-140: the items of the label map file
LabelMap(categories) ==
    LET d == tf_label_ids(categories)
    IN  [i \in 1..Len(d) |-> [id |-> d[i][2], name |-> d[i][1]]]

\* line 79
Boxes(item) == SelectSeq(item.annotations, LAMBDA ann : ann.type = "bbox")

\* lines 50-54
TfHeight(item) == IF has_image(item) THEN item.image[1] ELSE 0
TfWidth(item) == IF has_image(item) THEN item.image[2] ELSE 0

\* lines 83-86 raise ZeroDivisionError when the divisor is 0 and the
\* coordinate is a Python int or float; a numpy scalar divides to inf or nan
\* (with a RuntimeWarning) and the loop goes on.
DivisionRaises(item) ==
    /\ Boxes(item) /= <<>>
    /\ (TfWidth(item) = 0 \/ TfHeight(item) = 0)
    /\ extractor.numbers = "python"

\* lines 44-101: _make_tf_example; a quotient with den = 0 is the inf or nan
\* of a numpy division
_make_tf_example(item, categories, with_images) ==
    LET height == TfHeight(item)
        width == TfWidth(item)
        boxes == Boxes(item)
        n == Len(boxes)
    IN  [ source_id |-> ToString(item.id),
          filename |-> ToString(item.id) \o IMAGE_EXT,
          height |-> height,
          width |-> width,
          encoded |-> IF with_images /\ has_image(item)
                      THEN Some([image |-> item.image, format |-> IMAGE_FORMAT])
                      ELSE None,
          objects |-> IF boxes /= <<>>
                      THEN Some([
                        xmin |-> [i \in 1..n |-> Q(boxes[i].points[1], width)],
                        xmax |-> [i \in 1..n |-> Q(boxes[i].points[3], width)],
                        ymin |-> [i \in 1..n |-> Q(boxes[i].points[2], height)],
                        ymax |-> [i \in 1..n |-> Q(boxes[i].points[4], height)],
                        text |-> [i \in 1..n |-> _make_printable(
                                    get_label(categories, boxes[i].label))],
                        label |-> [i \in 1..n |->
                                    map_label_id(categories, boxes[i].label)] ])
                      ELSE None ]

TfRecordPath(name) == name \o ".tfrecord"

\* lines 119-123
TfSubsetName(subset_name) ==
    IF subset_name /= NoName THEN subset_name ELSE DEFAULT_SUBSET_NAME

\* lines 110-116
TfStart ==
    /\ converter = "tf"
    /\ pc = "start"
    /\ subsets' = SubsetsOrUnnamed(extractor.subsets)
    /\ si' = 1
    /\ pc' = "subset"
    /\ UNCHANGED notConvVars
    /\ UNCHANGED <<converter, save_images, extractor, ii, error, fs, dirs,
                   image_paths, subset_lists, warnings>>

\* lines 118-143: the label map is written and the record file is opened
TfSubsetOpen ==
    /\ converter = "tf"
    /\ pc = "subset"
    /\ si <= Len(subsets)
    /\ fs' = Put(Put(fs, LABELMAP_FILE, LabelMap(extractor.categories)),
                 TfRecordPath(TfSubsetName(subsets[si])), <<>>)
    /\ ii' = 1
    /\ pc' = "item"
    /\ UNCHANGED notConvVars
    /\ UNCHANGED <<converter, save_images, extractor, subsets, si, error, dirs,
                   image_paths, subset_lists, warnings>>

\* lines 144-151: one record is written
TfItem ==
    /\ converter = "tf"
    /\ pc = "item"
    /\ ii <= Len(SubsetItems(subsets[si]))
    /\ LET item == SubsetItems(subsets[si])[ii]
           path == TfRecordPath(TfSubsetName(subsets[si]))
       IN  /\ ~DivisionRaises(item)
           /\ fs' = Put(fs, path,
                        Append(fs[path],
                               _make_tf_example(item, extractor.categories,
                                                save_images)))
    /\ ii' = ii + 1
    /\ UNCHANGED notConvVars
    /\ UNCHANGED <<converter, save_images, extractor, subsets, si, pc, error,
                   dirs, image_paths, subset_lists, warnings>>

\* lines 83-86: the division raises and __call__ ends
TfItemFail ==
    /\ converter = "tf"
    /\ pc = "item"
    /\ ii <= Len(SubsetItems(subsets[si]))
    /\ DivisionRaises(SubsetItems(subsets[si])[ii])
    /\ pc' = "failed"
    /\ error' = Some("ZeroDivisionError")
    /\ UNCHANGED notConvVars
    /\ UNCHANGED <<converter, save_images, extractor, subsets, si, ii, fs,
                   dirs, image_paths, subset_lists, warnings>>

\* line 143: the writer is closed, the loop goes on
TfSubsetClose ==
    /\ converter = "tf"
    /\ pc = "item"
    /\ ii > Len(SubsetItems(subsets[si]))
    /\ si' = si + 1
    /\ pc' = "subset"
    /\ UNCHANGED notConvVars
    /\ UNCHANGED <<converter, save_images, extractor, subsets, ii, error, fs,
                   dirs, image_paths, subset_lists, warnings>>

\* __call__ returns
TfFinish ==
    /\ converter = "tf"
    /\ pc = "subset"
    /\ si > Len(subsets)
    /\ pc' = "done"
    /\ UNCHANGED notConvVars
    /\ UNCHANGED <<converter, save_images, extractor, subsets, si, ii, error,
                   fs, dirs, image_paths, subset_lists, warnings>>

NextTf ==
    \/ TfStart
    \/ TfSubsetOpen
    \/ TfItem
    \/ TfItemFail
    \/ TfSubsetClose
    \/ TfFinish

(***************************************************************************)
(* importers/ms_coco.py: CocoImporter                                      *)
(*                                                                         *)
(* A file name is the sequence of its atoms: words free of '_', '.' and    *)
(* '/', and these three separators.                                        *)
(***************************************************************************)
\* formats/ms_coco.py: CocoTask member names, as _COCO_EXTRACTORS lists them
CocoTask == <<"instances", "person_keypoints", "captions", "labels", "image_info">>

Range(s) == {s[i] : i \in 1..Len(s)}

\* lines 14-20
_COCO_EXTRACTORS(task) ==
    CASE task = "instances" -> "coco_instances"
      [] task = "person_keypoints" -> "coco_person_kp"
      [] task = "captions" -> "coco_captions"
      [] task = "labels" -> "coco_labels"
      [] task = "image_info" -> "coco_images"

\* formats/ms_coco.py: CocoPath.ANNOTATIONS_DIR
ANNOTATIONS_DIR == "annotations"

\* the last position of atom a in name, 0 if there is none
LastIndexOf(name, a) ==
    IF \E i \in 1..Len(name) : name[i] = a
    THEN CHOOSE i \in 1..Len(name) :
            name[i] = a /\ \A j \in (i + 1)..Len(name) : name[j] /= a
    ELSE 0

\* osp.basename(path)
basename(path) == SubSeq(path, LastIndexOf(path, "/") + 1, Len(path))

\* osp.splitext(name)[0]: a leading dot starts no extension
splitext_root(name) ==
    LET k == LastIndexOf(name, ".")
    IN  IF k > 1 /\ \E j \in 1..(k - 1) : name[j] /= "."
        THEN SubSeq(name, 1, k - 1) ELSE name

\* str.endswith('.json')
endswith_json(name) ==
    Len(name) >= 2 /\ name[Len(name) - 1] = "." /\ name[Len(name)] = "json"

\* str.split('_', maxsplit=1): the first '_' in place of the last
split1(name) ==
    LET k == IF \E i \in 1..Len(name) : name[i] = "_"
             THEN CHOOSE i \in 1..Len(name) :
                    name[i] = "_" /\ \A j \in 1..(i - 1) : name[j] /= "_"
             ELSE 0
    IN  IF k = 0 THEN <<name>>
        ELSE <<SubSeq(name, 1, k - 1), SubSeq(name, k + 1, Len(name))>>

\* str.rsplit('_', maxsplit=1)
rsplit1(name) ==
    LET k == LastIndexOf(name, "_")
    IN  IF k = 0 THEN <<name>>
        ELSE <<SubSeq(name, 1, k - 1), SubSeq(name, k + 1, Len(name))>>

\* line 47 and 54: osp.join(dataset_dir, ANNOTATIONS_DIR, ann_file), relative
\* to dataset_dir
subset_path(ann_file) == <<ANNOTATIONS_DIR, "/">> \o ann_file

\* line 58
name_parts(ann_file) == rsplit1(splitext_root(ann_file))

\* dict lookup d[k] on a sequence of <<key, value>> pairs
DictAt(d, k) == d[CHOOSE i \in 1..Len(d) : d[i][1] = k][2]
HasKey(d, k) == \E i \in 1..Len(d) : d[i][1] = k

\* line 69: subsets[subset_name][ann_type] = subset_path on a defaultdict(dict)
FoundSet(d, subset_name, ann_type, path) ==
    OdSet(d, subset_name,
          OdSet(IF HasKey(d, subset_name) THEN DictAt(d, subset_name) ELSE <<>>,
                ann_type, path))

\* lines 34-35: the (ann_type, ann_file) pairs in the order of the two loops
RECURSIVE FoundPairs(_)
FoundPairs(d) ==
    IF d = <<>> THEN <<>> ELSE Head(d)[2] \o FoundPairs(Tail(d))

\* lines 47-50: the annotations directory is missing
FindSubsetsNoDir ==
    /\ imp_pc = "start"
    /\ ann_dir = None
    /\ imp_pc' = "failed"
    /\ imp_error' = Some([type |-> "NotADirectoryError",
                          msg |-> <<"COCO annotations directory not found at ",
                                    ANNOTATIONS_DIR>>])
    /\ UNCHANGED <<ann_dir, extra_params, fi, found, ri, sources>>
    /\ UNCHANGED notImpVars

\* lines 47-53: the directory is there and is listed
FindSubsetsList ==
    /\ imp_pc = "start"
    /\ ann_dir /= None
    /\ found' = <<>>
    /\ fi' = 1
    /\ imp_pc' = "scan"
    /\ UNCHANGED <<ann_dir, extra_params, ri, sources, imp_error>>
    /\ UNCHANGED notImpVars

\* lines 54-56: a name that does not end in '.json' is passed over
ScanOther ==
    /\ imp_pc = "scan"
    /\ fi <= Len(ann_dir[1])
    /\ ~endswith_json(ann_dir[1][fi])
    /\ fi' = fi + 1
    /\ UNCHANGED <<ann_dir, extra_params, imp_pc, found, ri, sources, imp_error>>
    /\ UNCHANGED notImpVars

\* lines 58-69: a known task and a subset: the path is recorded
ScanRecord ==
    /\ imp_pc = "scan"
    /\ fi <= Len(ann_dir[1])
    /\ LET ann_file == ann_dir[1][fi]
           parts == name_parts(ann_file)
       IN  /\ endswith_json(ann_file)
           /\ Join(parts[1]) \in Range(CocoTask)
           /\ Len(parts) > 1
           /\ found' = FoundSet(found, Join(parts[2]), Join(parts[1]),
                                subset_path(ann_file))
    /\ fi' = fi + 1
    /\ UNCHANGED <<ann_dir, extra_params, imp_pc, ri, sources, imp_error>>
    /\ UNCHANGED notImpVars

\* lines 60-67: CocoTask[ann_type] raises KeyError, an Exception is raised
ScanUnknownTask ==
    /\ imp_pc = "scan"
    /\ fi <= Len(ann_dir[1])
    /\ LET ann_file == ann_dir[1][fi]
           parts == name_parts(ann_file)
       IN  /\ endswith_json(ann_file)
           /\ Join(parts[1]) \notin Range(CocoTask)
           /\ imp_error' = Some([type |-> "Exception",
                                 msg |-> <<"Unknown subset type ", Join(parts[1]),
                                           ", only known are: ">> \o CocoTask])
    /\ imp_pc' = "failed"
    /\ UNCHANGED <<ann_dir, extra_params, fi, found, ri, sources>>
    /\ UNCHANGED notImpVars

\* line 68: a known task and no '_' in the name: name_parts[1] raises
ScanNoSubset ==
    /\ imp_pc = "scan"
    /\ fi <= Len(ann_dir[1])
    /\ LET ann_file == ann_dir[1][fi]
           parts == name_parts(ann_file)
       IN  /\ endswith_json(ann_file)
           /\ Join(parts[1]) \in Range(CocoTask)
           /\ Len(parts) = 1
           /\ imp_error' = Some([type |-> "IndexError",
                                 msg |-> <<"list index out of range">>])
    /\ imp_pc' = "failed"
    /\ UNCHANGED <<ann_dir, extra_params, fi, found, ri, sources>>
    /\ UNCHANGED notImpVars

\* lines 29-32: find_subsets returned nothing
NoDataset ==
    /\ imp_pc = "scan"
    /\ fi > Len(ann_dir[1])
    /\ Len(found) = 0
    /\ imp_pc' = "failed"
    /\ imp_error' = Some([type |-> "Exception",
                          msg |-> <<"Failed to find 'coco' dataset at ", "path">>])
    /\ UNCHANGED <<ann_dir, extra_params, fi, found, ri, sources>>
    /\ UNCHANGED notImpVars

\* lines 29-34: find_subsets returned subsets, the loops begin
FoundSubsets ==
    /\ imp_pc = "scan"
    /\ fi > Len(ann_dir[1])
    /\ Len(found) /= 0
    /\ ri' = 1
    /\ imp_pc' = "add"
    /\ UNCHANGED <<ann_dir, extra_params, fi, found, sources, imp_error>>
    /\ UNCHANGED notImpVars

\* lines 36-41: one source is added to the project
AddSource ==
    /\ imp_pc = "add"
    /\ ri <= Len(FoundPairs(found))
    /\ LET ann_type == FoundPairs(found)[ri][1]
           ann_file == FoundPairs(found)[ri][2]
           source_name == Join(splitext_root(basename(ann_file)))
       IN  sources' = OdSet(sources, source_name,
                            [url |-> Join(ann_file),
                             format |-> _COCO_EXTRACTORS(ann_type),
                             options |-> extra_params])
    /\ ri' = ri + 1
    /\ UNCHANGED <<ann_dir, extra_params, imp_pc, fi, found, imp_error>>
    /\ UNCHANGED notImpVars

\* line 43
ReturnProject ==
    /\ imp_pc = "add"
    /\ ri > Len(FoundPairs(found))
    /\ imp_pc' = "done"
    /\ UNCHANGED <<ann_dir, extra_params, fi, found, ri, sources, imp_error>>
    /\ UNCHANGED notImpVars

NextImport ==
    \/ FindSubsetsNoDir
    \/ FindSubsetsList
    \/ ScanOther
    \/ ScanRecord
    \/ ScanUnknownTask
    \/ ScanNoSubset
    \/ NoDataset
    \/ FoundSubsets
    \/ AddSource
    \/ ReturnProject

(***************************************************************************)
(* extractors/ms_coco.py: CocoExtractor, label categories and labels       *)
(***************************************************************************)
\* pycocotools: loader.loadCats(loader.getCatIds()): the categories in file
\* order (category ids are distinct)
loadCats(data) == data.categories

\* lines 126-136: _load_label_categories: <<categories, label_map>>
RECURSIVE LabelMapOf(_, _, _)
LabelMapOf(cats, idx, label_map) ==
    IF cats = <<>> THEN label_map
    ELSE LabelMapOf(Tail(cats), idx + 1, OdSet(label_map, Head(cats).id, idx))

_load_label_categories(data) ==
    LET cats == loadCats(data)
    IN  << [i \in 1..Len(cats) |-> cats[i].name], LabelMapOf(cats, 0, <<>>) >>

\* lines 106-114: the loader the label categories come from, for the one
\* loader of task `t`
HasLabelLoader(t) == t \in {"labels", "instances", "person_keypoints"}

\* _parse_label with dict.get in place of the lookup
_parse_label_or_none(label_map, ann) ==
    IF ann.category_id \in {Some(0), None} THEN [raises |-> FALSE, label |-> None]
    ELSE IF HasKey(label_map, ann.category_id[1])
        THEN [raises |-> FALSE, label |-> Some(DictAt(label_map, ann.category_id[1]))]
    ELSE [raises |-> FALSE, label |-> None]

\* lines 199-203: _parse_label; the lookup of an id that is no key raises
_parse_label(label_map, ann) ==
    IF ann.category_id \in {Some(0), None} THEN [raises |-> FALSE, label |-> None]
    ELSE IF HasKey(label_map, ann.category_id[1])
        THEN [raises |-> FALSE, label |-> Some(DictAt(label_map, ann.category_id[1]))]
    ELSE [raises |-> TRUE, label |-> None]

\* lines 207-210
Attributes(ann) == IF ann.score /= None THEN <<<<"score", ann.score[1]>>>> ELSE <<>>

\* lines 264-265: the coordinates and the visibility flags of a keypoints list
KeypointCoords(keypoints) ==
    LET idx == {i \in 1..Len(keypoints) : (i - 1) % 3 /= 2}
        RECURSIVE Pick(_)
        Pick(i) == IF i > Len(keypoints) THEN <<>>
                   ELSE (IF i \in idx THEN <<keypoints[i]>> ELSE <<>>) \o Pick(i + 1)
    IN  Pick(1)

KeypointVisibility(keypoints) ==
    [k \in 1..(Len(keypoints) \div 3) |-> keypoints[3 * k]]

\* pycocotools: loader.loadImgs(img_id)[0], the image the records belong to
loadImgs(data) == [height |-> 2, width |-> 4]

\* pycocotools mask_utils.frPyObjects(objects, h, w): one run-length encoding
\* per object, a polygon's point list or an uncompressed RLE dictionary
frPyObjects(objects, h, w) ==
    [i \in 1..Len(objects) |-> [how |-> "frPyObjects", of |-> <<objects[i]>>,
                                size |-> <<h, w>>]]

\* pycocotools mask_utils.merge(rles): the union as one run-length encoding
merge(rles) == [how |-> "merge", of |-> rles, size |-> rles[1].size]

\* SegmentationParts with the polygons merged whatever the option says
SegmentationParts_merging(segmentation, merge_instance_polygons, image_info) ==
    IF segmentation.is_list THEN
        << segmentation.parts,
           IF segmentation.parts /= <<>>
           THEN Some(merge(frPyObjects(segmentation.parts,
                                       image_info.height, image_info.width)))
           ELSE None >>
    ELSE IF segmentation.counts_is_list THEN
        << <<>>, Some(frPyObjects(<<segmentation>>, segmentation.size[1],
                                  segmentation.size[2])[1]) >>
    ELSE << <<>>, Some(segmentation) >>

\* lines 220-245: <<polygons, rle>> of a record that has a segmentation: the
\* points of the Polygons appended and the encoding of the RleMask, None if
\* there is no mask
SegmentationParts(segmentation, merge_instance_polygons, image_info) ==
    IF segmentation.is_list THEN
        << segmentation.parts,
           IF merge_instance_polygons
           THEN Some(merge(frPyObjects(segmentation.parts,
                                       image_info.height, image_info.width)))
           ELSE None >>
    ELSE IF segmentation.counts_is_list THEN
        << <<>>, Some(frPyObjects(<<segmentation>>, segmentation.size[1],
                                  segmentation.size[2])[1]) >>
    ELSE << <<>>, Some(segmentation) >>

\* lines 212-255: what an instances record appends, given its label
InstancesParsed(ann, label_id, merge_instance_polygons, image_info) ==
    LET attributes == Attributes(ann) \o <<<<"is_crowd", ann.iscrowd /= 0>>>>
        segmentation == ann.segmentation
        group == IF segmentation /= None THEN Some(ann.id) ELSE None
        seg == IF segmentation /= None
               THEN SegmentationParts(segmentation[1], merge_instance_polygons,
                                      image_info)
               ELSE << <<>>, None >>
    IN  [k \in 1..Len(seg[1]) |->
            [type |-> "polygon", points |-> seg[1][k], label |-> label_id,
             id |-> Some(ann.id), group |-> group, attributes |-> attributes]]
        \o (IF seg[2] /= None
            THEN <<[type |-> "mask", rle |-> seg[2][1], label |-> label_id,
                    id |-> Some(ann.id), group |-> group,
                    attributes |-> attributes]>>
            ELSE <<>>)
        \o <<[type |-> "bbox", points |-> ann.bbox, label |-> label_id,
              id |-> Some(ann.id), group |-> group, attributes |-> attributes]>>

\* lines 205-288: _parse_annotation: whether it raises (and what) and what it
\* appends
_parse_annotation(label_map, merge_instance_polygons, ann, ann_type, image_info) ==
    IF ann_type = "instances" THEN
        LET l == _parse_label(label_map, ann)
        IN  [raises |-> l.raises, error |-> "KeyError",
             parsed |-> IF l.raises THEN <<>>
                        ELSE InstancesParsed(ann, l.label,
                                 merge_instance_polygons, image_info)]
    ELSE IF ann_type = "labels" THEN
        LET l == _parse_label(label_map, ann)
        IN  [raises |-> l.raises, error |-> "KeyError",
             parsed |-> <<[type |-> "label", label |-> l.label, id |-> Some(ann.id),
                           attributes |-> Attributes(ann)]>>]
    ELSE IF ann_type = "person_keypoints" THEN
        LET l == _parse_label(label_map, ann)
            group == IF ann.bbox /= None THEN Some(ann.id) ELSE None
        IN  [raises |-> l.raises, error |-> "KeyError",
             parsed |->
                <<[type |-> "points", points |-> KeypointCoords(ann.keypoints),
                   visibility |-> KeypointVisibility(ann.keypoints),
                   label |-> l.label, id |-> Some(ann.id), group |-> group,
                   attributes |-> Attributes(ann)]>>
                \o (IF ann.bbox /= None
                    THEN <<[type |-> "bbox", points |-> ann.bbox[1],
                            label |-> l.label, id |-> None, group |-> group,
                            attributes |-> <<>>]>>
                    ELSE <<>>)]
    ELSE IF ann_type = "captions" THEN
        [raises |-> FALSE, error |-> "",
         parsed |-> <<[type |-> "caption", caption |-> ann.caption,
                       id |-> Some(ann.id), attributes |-> Attributes(ann)]>>]
    ELSE [raises |-> TRUE, error |-> "NotImplementedError", parsed |-> <<>>]

\* lines 191-195: the annotations of the image, parsed in order
RECURSIVE ParseAll(_, _, _, _, _)
ParseAll(label_map, merge_instance_polygons, anns, ann_type, image_info) ==
    IF anns = <<>> THEN [raises |-> FALSE, error |-> "", parsed |-> <<>>]
    ELSE LET first == _parse_annotation(label_map, merge_instance_polygons,
                                        Head(anns), ann_type, image_info)
             rest == ParseAll(label_map, merge_instance_polygons, Tail(anns),
                              ann_type, image_info)
         IN  IF first.raises
             THEN [raises |-> TRUE, error |-> first.error, parsed |-> <<>>]
             ELSE [raises |-> rest.raises, error |-> rest.error,
                   parsed |-> IF rest.raises THEN <<>>
                              ELSE first.parsed \o rest.parsed]

\* loaders.get(task)
LoaderOf(all_loaders, t) ==
    IF HasKey(all_loaders, t) THEN Some(DictAt(all_loaders, t)) ELSE None

\* label_loader with the instances loader tried first, then the keypoints
\* loader, then the labels loader
label_loader_instances_first(all_loaders) ==
    IF LoaderOf(all_loaders, "instances") /= None
        THEN LoaderOf(all_loaders, "instances")
    ELSE IF LoaderOf(all_loaders, "person_keypoints") /= None
        THEN LoaderOf(all_loaders, "person_keypoints")
    ELSE LoaderOf(all_loaders, "labels")

\* lines 106-113: the loader the label categories are read from, or None
label_loader(all_loaders) ==
    LET labels_loader == LoaderOf(all_loaders, "labels")
        instances_loader == LoaderOf(all_loaders, "instances")
        person_kp_loader == LoaderOf(all_loaders, "person_keypoints")
        first == IF labels_loader = None /\ instances_loader /= None
                 THEN instances_loader ELSE labels_loader
    IN  IF first = None /\ person_kp_loader /= None
        THEN person_kp_loader ELSE first

\* lines 98-118: _load_categories: the label names and the label map, both
\* None when no loader carries label categories
_load_categories(all_loaders) ==
    LET chosen == label_loader(all_loaders)
    IN  IF chosen /= None
        THEN [categories |-> Some(_load_label_categories(chosen[1])[1]),
              label_map |-> Some(_load_label_categories(chosen[1])[2])]
        ELSE [categories |-> None, label_map |-> None]

\* lines 65-84, 98-118: __init__ of an extractor whose task has label
\* categories
ExtractorInitLabels ==
    /\ ext_pc = "new"
    /\ loaders' = OdSet(<<>>, _task, dataset)
    /\ label_loader(loaders') /= None
    /\ _categories' = _load_categories(loaders').categories
    /\ _label_map' = _load_categories(loaders').label_map
    /\ ext_pc' = "constructed"
    /\ UNCHANGED <<_merge_instance_polygons, _task, dataset, fetched, ext_error>>
    /\ UNCHANGED notExtVars

\* lines 65-84, 98-114: __init__ of an extractor without a label loader
ExtractorInitPlain ==
    /\ ext_pc = "new"
    /\ loaders' = OdSet(<<>>, _task, dataset)
    /\ label_loader(loaders') = None
    /\ ext_pc' = "constructed"
    /\ UNCHANGED <<_merge_instance_polygons, _task, dataset, _categories,
                   _label_map, fetched, ext_error>>
    /\ UNCHANGED notExtVars

\* lines 98-118: _load_categories over the loaders of the subsets, a label
\* loader among them
LoadCategoriesLabels ==
    /\ ext_pc = "loaders"
    /\ label_loader(loaders) /= None
    /\ _categories' = _load_categories(loaders).categories
    /\ _label_map' = _load_categories(loaders).label_map
    /\ ext_pc' = "loaded"
    /\ UNCHANGED <<_merge_instance_polygons, loaders, _task, dataset, fetched,
                   ext_error>>
    /\ UNCHANGED notExtVars

\* lines 98-114: _load_categories, no label loader among the loaders
LoadCategoriesPlain ==
    /\ ext_pc = "loaders"
    /\ label_loader(loaders) = None
    /\ _categories' = _load_categories(loaders).categories
    /\ _label_map' = _load_categories(loaders).label_map
    /\ ext_pc' = "loaded"
    /\ UNCHANGED <<_merge_instance_polygons, loaders, _task, dataset, fetched,
                   ext_error>>
    /\ UNCHANGED notExtVars

NextCategories ==
    \/ LoadCategoriesLabels
    \/ LoadCategoriesPlain

\* lines 171-197: _get returns the item
ExtractorGet ==
    /\ ext_pc = "constructed"
    /\ LET r == ParseAll(IF _label_map = None THEN <<>> ELSE _label_map[1],
                         _merge_instance_polygons, dataset.annotations,
                         _task, loadImgs(dataset))
       IN  /\ ~r.raises
           /\ fetched' = Some(r.parsed)
    /\ ext_pc' = "fetched"
    /\ UNCHANGED <<_merge_instance_polygons, loaders, _task, dataset, _categories, _label_map, ext_error>>
    /\ UNCHANGED notExtVars

\* lines 195, 203, 286: a category id that is no key of the label map
\* (KeyError) or a record of a task without a branch (NotImplementedError)
ExtractorGetFail ==
    /\ ext_pc = "constructed"
    /\ LET r == ParseAll(IF _label_map = None THEN <<>> ELSE _label_map[1],
                         _merge_instance_polygons, dataset.annotations,
                         _task, loadImgs(dataset))
       IN  /\ r.raises
           /\ ext_error' = Some(r.error)
    /\ ext_pc' = "failed"
    /\ UNCHANGED <<_merge_instance_polygons, loaders, _task, dataset, _categories, _label_map, fetched>>
    /\ UNCHANGED notExtVars

NextExtractor ==
    \/ ExtractorInitLabels
    \/ ExtractorInitPlain
    \/ ExtractorGet
    \/ ExtractorGetFail

(***************************************************************************)
(* extractors/ms_coco.py: RleMask                                          *)
(*                                                                         *)
(* An RLE is [size |-> <<h, w>>, counts |-> run lengths], the runs taking  *)
(* turns between 0 and 1 down the columns, 0 first.                        *)
(***************************************************************************)
RECURSIVE Runs(_, _)
Runs(counts, bit) ==
    IF counts = <<>> THEN <<>>
    ELSE [i \in 1..Head(counts) |-> bit] \o Runs(Tail(counts), 1 - bit)

\* line 27: mask_utils.decode(rle): the pixels, by columns
decode(rle) == [shape |-> rle.size, pixels |-> Runs(rle.counts, 0)]

\* the image a mask holds: lazily decoded for an RleMask
MaskImage(mask) == IF mask.class = "RleMask" THEN decode(mask.rle) ELSE mask.image

\* extractor.py: MaskObject.__eq__: structural, by pixels
MaskObject__eq__(self, other) ==
    /\ self.label = other.label
    /\ self.id = other.id
    /\ self.group = other.group
    /\ MaskImage(self) = MaskImage(other)

\* __eq__ comparing the decoded pixels
RleMask__eq__by_pixels(self, other) ==
    IF other.class /= "RleMask" THEN MaskObject__eq__(self, other)
    ELSE decode(self.rle) = decode(other.rle)

\* lines 40-43: RleMask.__eq__
RleMask__eq__(self, other) ==
    IF other.class /= "RleMask" THEN MaskObject__eq__(self, other)
    ELSE self.rle = other.rle

\* self == other
MaskCompare ==
    /\ eq_result = None
    /\ masks /= <<>>
    /\ eq_result' = Some(RleMask__eq__(masks[1], masks[2]))
    /\ UNCHANGED masks
    /\ UNCHANGED notMaskVars

\* other == self, for an `other` that is an RleMask too
MaskCompareBack ==
    /\ eq_result /= None
    /\ Len(eq_result) = 1
    /\ masks[2].class = "RleMask"
    /\ eq_result' = Append(eq_result, RleMask__eq__(masks[2], masks[1]))
    /\ UNCHANGED masks
    /\ UNCHANGED notMaskVars

NextMask ==
    \/ MaskCompare
    \/ MaskCompareBack

(***************************************************************************)
(* Sources the converters are run on.                                      *)
(***************************************************************************)
Cat == <<"c", "a", "t">>
Dog == <<"d", "o", "g">>
EmptyName == <<>>
NamePool == {Cat, Dog, EmptyName}

SeqsUpTo(S, n) == UNION {[1..k -> S] : k \in 0..n}

\* label tables: up to MaxLabels names, duplicates and the empty name included
LabelTables == SeqsUpTo(NamePool, MaxLabels)

\* the labels an annotation may carry under a table of n names
Labels(n) == {None} \cup {Some(l) : l \in 0..(n - 1)}

Bbox(label, points) == [type |-> "bbox", label |-> label, points |-> points]
Polygon(label) == [type |-> "polygon", label |-> label, points |-> <<0, 0, 1, 0, 1, 1>>]
LabelAnn(label) == [type |-> "label", label |-> label, points |-> <<>>]

Image == <<2, 4, 3>>        \* item.image.shape: height 2, width 4
SmallBox == <<1, 0, 3, 2>>  \* x1, y1, x2, y2

Item(id, subset, image, anns) ==
    [id |-> id, subset |-> subset, image |-> image, annotations |-> anns]

Source(categories, subset_names, items, numbers) ==
    [categories |-> categories, subsets |-> subset_names, items |-> items,
     numbers |-> numbers]

\* sequences without repetition
Distinct(s) == \A i, j \in 1..Len(s) : i /= j => s[i] /= s[j]

SubsetPool == {"train", "valid", "test", "val", NoName}

\* (a) any list of up to MaxSubsets distinct subset names, one item each
SourcesBySubsets ==
    { Source(<<Cat, Dog>>, l,
             [k \in 1..Len(l) |-> Item(k, l[k], Image, <<Bbox(Some(0), SmallBox)>>)],
             "python") :
        l \in {s \in SeqsUpTo(SubsetPool, MaxSubsets) : Len(s) > 0 /\ Distinct(s)} }

\* (b) no subsets, up to MaxItems items, with and without image and boxes
ItemContents ==
    {None, Image} \X
    ( {<<>>, <<Polygon(Some(0)), Bbox(Some(1), SmallBox)>>}
      \cup {<<Bbox(l, SmallBox)>> : l \in Labels(2)} )

SourcesByItems ==
    { Source(<<Cat, Dog>>, <<>>,
             [k \in 1..Len(c) |-> Item(k, NoName, c[k][1], c[k][2])], nb) :
        c \in SeqsUpTo(ItemContents, MaxItems), nb \in {"python", "numpy"} }

\* (c) no subsets, any label table, one item with one box of any label
SourcesByLabels ==
    UNION { { Source(t, <<>>, <<Item(1, NoName, Image, <<Bbox(l, SmallBox)>>)>>,
                     "python") : l \in Labels(Len(t)) } : t \in LabelTables }

ImpIdle ==
    /\ ann_dir = None
    /\ extra_params = <<>>
    /\ imp_pc = "idle"
    /\ fi = 0
    /\ found = <<>>
    /\ ri = 0
    /\ sources = <<>>
    /\ imp_error = None

ExtIdle ==
    /\ _task = "none"
    /\ dataset = [categories |-> <<>>, annotations |-> <<>>]
    /\ _categories = None
    /\ _label_map = None
    /\ ext_pc = "idle"
    /\ fetched = None
    /\ ext_error = None
    /\ _merge_instance_polygons = FALSE
    /\ loaders = <<>>

MaskIdle ==
    /\ masks = <<>>
    /\ eq_result = None

ConvIdle ==
    /\ subsets = <<>>
    /\ si = 0
    /\ ii = 0
    /\ pc = "start"
    /\ error = None
    /\ fs = <<>>
    /\ dirs = {}
    /\ image_paths = <<>>
    /\ subset_lists = <<>>
    /\ warnings = <<>>

Init ==
    /\ converter \in {"yolo", "tf"}
    /\ save_images \in BOOLEAN
    /\ extractor \in SourcesBySubsets \cup SourcesByItems \cup SourcesByLabels
    /\ ConvIdle
    /\ ImpIdle
    /\ ExtIdle
    /\ MaskIdle

Next ==
    \/ YoloStart
    \/ YoloSubsetAccept
    \/ YoloSubsetSkip
    \/ YoloItem
    \/ YoloItemFail
    \/ YoloSubsetClose
    \/ YoloFinish
    \/ TfStart
    \/ TfSubsetOpen
    \/ TfItem
    \/ TfItemFail
    \/ TfSubsetClose
    \/ TfFinish

Spec == Init /\ [][Next]_vars

(***************************************************************************)
(* Annotation directories the importer is run on.                          *)
(***************************************************************************)
\* the name '<task>_<subset>.<ext>'
RECURSIVE Words(_)
Words(ws) ==
    IF Len(ws) = 1 THEN ws ELSE <<Head(ws), "_">> \o Words(Tail(ws))

FileName(task, subset, ext) == Words(task) \o <<"_">> \o Words(subset) \o <<".", ext>>

TaskWords ==
    {<<"instances">>, <<"person", "keypoints">>, <<"captions">>, <<"labels">>,
     <<"image", "info">>}

\* the files an annotations directory may hold
FilePool ==
    {FileName(t, <<"train">>, "json") : t \in TaskWords}
    \cup {FileName(<<"person", "keypoints">>, <<"val">>, "json"),
          FileName(<<"labels">>, <<"val">>, "json"),
          FileName(<<"foo">>, <<"train">>, "json"),
          FileName(<<"instances">>, <<"train">>, "txt"),
          <<"labels", ".", "json">>}

Listings == {l \in SeqsUpTo(FilePool, MaxFiles) : Distinct(l)}

InitImport ==
    /\ ann_dir \in {None} \cup {Some(l) : l \in Listings}
    /\ extra_params \in {<<>>, <<"merge_instance_polygons">>}
    /\ imp_pc = "start"
    /\ fi = 0
    /\ found = <<>>
    /\ ri = 0
    /\ sources = <<>>
    /\ imp_error = None
    /\ converter = "none"
    /\ save_images = FALSE
    /\ extractor = Source(<<>>, <<>>, <<>>, "python")
    /\ ConvIdle
    /\ ExtIdle
    /\ MaskIdle

SpecImport == InitImport /\ [][NextImport]_vars

(***************************************************************************)
(* Single items the line format converter is run on.                       *)
(***************************************************************************)
ExampleShape == <<50, 100, 3>>      \* the 100x50 image of the worked example
ExampleBox == <<10, 10, 30, 30>>    \* its box x=10, y=10, w=20, h=20
LargeShape == <<200, 300, 3>>

Shapes ==
    {<<h, w, 3>> : h \in 1..MaxDim, w \in 1..MaxDim} \cup {ExampleShape, LargeShape}

PixelCoords == (0..MaxCoord) \cup {10, 30}

BoxPool ==
    {<<x1, y1, x2, y2>> : x1 \in PixelCoords, y1 \in PixelCoords,
                          x2 \in PixelCoords, y2 \in PixelCoords}

\* (g) one labelled box of any geometry in an image of any shape
SourcesByGeometry ==
    { Source(<<Cat, Dog>>, <<>>, <<Item(1, NoName, sh, <<Bbox(Some(l), b)>>)>>,
             "python") :
        sh \in Shapes, l \in 0..1,
        b \in {p \in BoxPool : p[1] <= p[3] /\ p[2] <= p[4]} }

\* (o) up to MaxAnns annotations of any kind and label, in any order
AnnPool ==
    {Bbox(l, b) : l \in Labels(2), b \in {SmallBox, ExampleBox}}
    \cup {Polygon(Some(0)), LabelAnn(Some(1))}

SourcesByOrder ==
    { Source(<<Cat, Dog>>, <<>>, <<Item(1, NoName, ExampleShape, a)>>, "python") :
        a \in SeqsUpTo(AnnPool, MaxAnns) }

InitLines ==
    /\ converter = "yolo"
    /\ save_images = FALSE
    /\ extractor \in SourcesByGeometry \cup SourcesByOrder
    /\ ConvIdle
    /\ ImpIdle
    /\ ExtIdle
    /\ MaskIdle

NextLines ==
    \/ YoloStart
    \/ YoloSubsetAccept
    \/ YoloItem
    \/ YoloSubsetClose
    \/ YoloFinish

SpecLines == InitLines /\ [][NextLines]_vars

(***************************************************************************)
(* Reading an annotation line back: split on blanks, read each number,     *)
(* undo the normalization.                                                 *)
(***************************************************************************)
DigitVal(c) == CHOOSE d \in 0..9 : ToString(d) = c

RECURSIVE DigitsValue(_, _)
\* int(digits), acc the value of the digits read so far
DigitsValue(digits, acc) ==
    IF digits = <<>> THEN acc
    ELSE DigitsValue(Tail(digits), 10 * acc + DigitVal(Head(digits)))

\* str.split(' ')
RECURSIVE SplitBlank(_, _)
SplitBlank(text, word) ==
    IF text = <<>> THEN <<word>>
    ELSE IF Head(text) = " " THEN <<word>> \o SplitBlank(Tail(text), <<>>)
    ELSE SplitBlank(Tail(text), Append(word, Head(text)))

IsDigits(t) == Len(t) > 0 /\ \A i \in 1..Len(t) : t[i] \in {ToString(d) : d \in 0..9}

\* a number written with exactly six decimals
IsFixed6(t) ==
    /\ Len(t) >= 8
    /\ t[Len(t) - 6] = "."
    /\ IsDigits(SubSeq(t, 1, Len(t) - 7))
    /\ IsDigits(SubSeq(t, Len(t) - 5, Len(t)))

\* float(t) in millionths, for t written with six decimals
Millionths(t) ==
    DigitsValue(SubSeq(t, 1, Len(t) - 7), 0) * Million
    + DigitsValue(SubSeq(t, Len(t) - 5, Len(t)), 0)

\* the five fields of a line: label, cx, cy, w, h (the last four in millionths)
ReadLine(line) ==
    LET f == SplitBlank(line, <<>>)
    IN  [label |-> DigitsValue(f[1], 0),
         cx |-> Millionths(f[2]), cy |-> Millionths(f[3]),
         w |-> Millionths(f[4]), h |-> Millionths(f[5])]

WellFormedLine(line) ==
    LET f == SplitBlank(line, <<>>)
    IN  Len(f) = 5 /\ IsDigits(f[1]) /\ \A i \in 2..5 : IsFixed6(f[i])

Abs(n) == IF n < 0 THEN -n ELSE n

\* the item the converter wrote under the default subset, and its file
TheItem == extractor.items[1]
TheFile == fs[AnnotationPath(YoloPath_DEFAULT_SUBSET_NAME, TheItem.id)]
ItemWritten ==
    /\ converter = "yolo"
    /\ Len(extractor.items) = 1
    /\ AnnotationPath(YoloPath_DEFAULT_SUBSET_NAME, TheItem.id) \in DOMAIN fs

LabelledBoxes(item) ==
    SelectSeq(item.annotations, LAMBDA a : a.type = "bbox" /\ a.label /= None)

Inside(box, shape) ==
    /\ 0 <= box[1] /\ box[1] <= box[3] /\ box[3] <= shape[2]
    /\ 0 <= box[2] /\ box[2] <= box[4] /\ box[4] <= shape[1]

\* m millionths is num/den printed to six decimals: off by at most half a
\* millionth
Printed6(m, num, den) == 2 * Abs(m * den - num * Million) <= den

\* the line of `box` in an image of shape `shape`, as the claim states it
LineOf(line, box, shape) ==
    LET b == box.points
        W == shape[2]
        H == shape[1]
        r == ReadLine(line)
    IN  /\ WellFormedLine(line)
        /\ r.label = box.label[1]
        /\ Printed6(r.cx, b[1] + b[3], 2 * W)
        /\ Printed6(r.cy, b[2] + b[4], 2 * H)
        /\ Printed6(r.w, b[3] - b[1], W)
        /\ Printed6(r.h, b[4] - b[2], H)
        /\ Inside(b, shape) =>
              \A v \in {r.cx, r.cy, r.w, r.h} : 0 <= v /\ v <= Million

ExampleLine == "1 0.200000 0.400000 0.200000 0.400000"

\* C1: the annotation file of an item with an image holds one line per
\* labelled bounding box, in annotation order, each 'L cx cy w h' with the
\* centre and size normalized by the image width and height and printed to six
\* decimals, within [0,1] for a box inside the image; unlabelled boxes and
\* other annotations give no line; the 100x50 example gives its stated line.
C1_LinePerLabelledBox ==
    ItemWritten =>
        LET boxes == LabelledBoxes(TheItem)
        IN  /\ Len(TheFile) = Len(boxes)
            /\ \A k \in 1..Len(boxes) :
                  /\ LineOf(TheFile[k], boxes[k], TheItem.image)
                  /\ (TheItem.image = ExampleShape /\ boxes[k].points = ExampleBox
                      /\ boxes[k].label = Some(1))
                        => Join(TheFile[k]) = ExampleLine

\* the worked example after an unlabelled box, written
C1_Witness ==
    /\ ItemWritten
    /\ pc = "done"
    /\ TheItem.image = ExampleShape
    /\ TheItem.annotations = <<Bbox(None, SmallBox), Bbox(Some(1), ExampleBox)>>
    /\ Len(TheFile) = 1
    /\ Join(TheFile[1]) = ExampleLine

\* the corners (x1, y1, x2, y2) a reader gets back, times 2 * Million
ReadCorners(line, shape) ==
    LET r == ReadLine(line)
    IN  << (2 * r.cx - r.w) * shape[2], (2 * r.cy - r.h) * shape[1],
           (2 * r.cx + r.w) * shape[2], (2 * r.cy + r.h) * shape[1] >>

\* every corner read back is within tol / (2 * Million) of the original,
\* tol[1] for x and tol[2] for y
RoundTripWithin(tol) ==
    ItemWritten =>
        LET boxes == LabelledBoxes(TheItem)
        IN  \A k \in 1..Len(boxes) :
                Inside(boxes[k].points, TheItem.image) =>
                    LET back == ReadCorners(TheFile[k], TheItem.image)
                    IN  \A c \in 1..4 :
                            Abs(back[c] - 2 * Million * boxes[k].points[c])
                                <= tol[2 - (c % 2)]

\* C2 as stated: every pixel coordinate comes back within 1e-5
C2_Original == RoundTripWithin(<<20, 20>>)

\* C2 as amended: every pixel coordinate of a labelled box inside the image
\* comes back within 1e-6 times the dimension that normalized it (the width for
\* x, the height for y)
C2_RoundTripScaled ==
    ItemWritten => RoundTripWithin(<<2 * TheItem.image[2], 2 * TheItem.image[1]>>)

\* a box written and read back more than 1e-5 off, yet within 1e-6 * width
C2_Witness ==
    /\ ItemWritten
    /\ TheItem.image = LargeShape
    /\ ~C2_Original
    /\ C2_RoundTripScaled

(***************************************************************************)
(* Claims about whole conversions.                                         *)
(***************************************************************************)
\* the loop over the subsets has gone past position k
Passed(k) == pc \in {"subset", "item", "done", "failed"} /\ k < si

Named(k) == subsets[k] /= NoName
Whitelisted(k) == subsets[k] \in YoloPath_SUBSET_NAMES

ObjDataLine(name) == name \o " = data/" \o name \o ".txt"

\* the position of a line in a file, 0 if it is not there
LinePos(file, line) ==
    IF \E i \in 1..Len(file) : file[i] = line
    THEN CHOOSE i \in 1..Len(file) : file[i] = line
    ELSE 0

\* the first position of a subset name in the list
FirstPos(name) == CHOOSE k \in 1..Len(subsets) : subsets[k] = name

\* C3: a named subset outside the whitelist is skipped with a warning and
\* does not end the run; no directory, list file or obj.data entry is made
\* for it; every whitelisted subset before and after it has its directory,
\* the annotation file and list entry of each of its items, and its obj.data
\* entry, the entries in processing order.
C3_SkipUnknownSubset ==
    converter = "yolo" =>
      /\ \A k \in 1..Len(subsets) : (Passed(k) /\ Named(k) /\ ~Whitelisted(k)) =>
            /\ SubsetDir(subsets[k]) \notin dirs
            /\ SubsetListName(subsets[k]) \notin DOMAIN fs
            /\ \E i \in 1..Len(warnings) :
                  warnings[i] = "Skipping subset export '" \o subsets[k] \o "'"
            /\ "obj.data" \in DOMAIN fs =>
                  LinePos(fs["obj.data"], ObjDataLine(subsets[k])) = 0
      /\ \A k \in 1..Len(subsets) : (Passed(k) /\ Named(k) /\ Whitelisted(k)) =>
            /\ SubsetDir(subsets[k]) \in dirs
            /\ SubsetListName(subsets[k]) \in DOMAIN fs
            /\ \A i \in 1..Len(extractor.items) :
                  extractor.items[i].subset = subsets[k] =>
                    /\ AnnotationPath(subsets[k], extractor.items[i].id) \in DOMAIN fs
                    /\ ListedPath(subsets[k], extractor.items[i].id)
                          \in Range(fs[SubsetListName(subsets[k])])
            /\ "obj.data" \in DOMAIN fs =>
                  LinePos(fs["obj.data"], ObjDataLine(subsets[k])) > 0
      /\ pc = "failed" => ExportName(subsets[si]) /= None
      /\ (pc = "done" /\ \A k \in 1..Len(subsets) : Named(k)) =>
            /\ Len(fs["obj.data"]) =
                  3 + Cardinality({k \in 1..Len(subsets) : Whitelisted(k)})
            /\ \A a, b \in Range(subsets) \cap YoloPath_SUBSET_NAMES :
                  FirstPos(a) < FirstPos(b) =>
                    LinePos(fs["obj.data"], ObjDataLine(a))
                        < LinePos(fs["obj.data"], ObjDataLine(b))

\* 'test' was skipped between 'valid' and 'train', both exported
C3_Witness ==
    /\ converter = "yolo"
    /\ pc = "done"
    /\ subsets = <<"valid", "test", "train">>
    /\ warnings = <<"Skipping subset export 'test'">>
    /\ dirs = {"obj_valid_data", "obj_train_data"}
    /\ SubSeq(fs["obj.data"], 2, 3) = <<"valid = data/valid.txt", "train = data/train.txt">>

\* the outputs made per subset
TfRecordFiles == DOMAIN fs \ {LABELMAP_FILE}
YoloListFiles ==
    {f \in DOMAIN fs : \E n \in YoloPath_SUBSET_NAMES : f = SubsetListName(n)}

\* C4: a source that declares no subsets is converted as the one subset of
\* the format's default name: the record converter writes the one file
\* '<default>.tfrecord' with one record per item, the line converter one data
\* directory and one list file with one entry per item.
C4_ZeroSubsetsOneDefault ==
    (pc = "done" /\ Len(extractor.subsets) = 0) =>
      /\ Len(subsets) = 1
      /\ converter = "tf" =>
          /\ TfRecordFiles = {DEFAULT_SUBSET_NAME \o ".tfrecord"}
          /\ LET file == fs[DEFAULT_SUBSET_NAME \o ".tfrecord"]
             IN  /\ Len(file) = Len(extractor.items)
                 /\ \A i \in 1..Len(file) :
                        file[i].source_id = ToString(extractor.items[i].id)
      /\ converter = "yolo" =>
          /\ dirs = {"obj_" \o YoloPath_DEFAULT_SUBSET_NAME \o "_data"}
          /\ YoloListFiles = {YoloPath_DEFAULT_SUBSET_NAME \o ".txt"}
          /\ Len(fs["obj.data"]) = 4
          /\ LET file == fs[YoloPath_DEFAULT_SUBSET_NAME \o ".txt"]
             IN  /\ Len(file) = Len(extractor.items)
                 /\ \A i \in 1..Len(file) :
                        file[i] = ListedPath(YoloPath_DEFAULT_SUBSET_NAME,
                                             extractor.items[i].id)

\* two items of a source without subsets, written to default.tfrecord
C4_Witness ==
    /\ pc = "done"
    /\ converter = "tf"
    /\ extractor.subsets = <<>>
    /\ Len(extractor.items) = 2
    /\ "default.tfrecord" \in DOMAIN fs
    /\ Len(fs["default.tfrecord"]) = 2

\* C5: in every record the class index of a box labelled i is i + 1 and that
\* of an unlabelled box is 0, and the label map lists every label of the
\* table, in category order, with its 1-based index, whatever the names are.
C5_ClassIndexIsLabelPlusOne ==
    converter = "tf" =>
      /\ LABELMAP_FILE \in DOMAIN fs =>
            fs[LABELMAP_FILE] =
                [i \in 1..Len(extractor.categories) |->
                    [id |-> i, name |-> extractor.categories[i]]]
      /\ (pc = "item" /\ ii > 1) =>
            LET item == SubsetItems(subsets[si])[ii - 1]
                file == fs[TfRecordPath(TfSubsetName(subsets[si]))]
                boxes == Boxes(item)
                record == file[Len(file)]
            IN  boxes /= <<>> =>
                  \A k \in 1..Len(boxes) :
                      record.objects[1].label[k] =
                          IF boxes[k].label = None THEN 0
                          ELSE boxes[k].label[1] + 1

\* every quotient of a record has a divisor that is not 0
RecordDivides(record) ==
    record.objects /= None =>
        \A f \in {"xmin", "xmax", "ymin", "ymax"} :
            \A k \in 1..Len(record.objects[1][f]) :
                record.objects[1][f][k].den /= 0

\* C6: an item without an image either ends the conversion with an error or
\* gets a default; no record or line is written with coordinates divided by a
\* zero dimension.
C6_NoDivisionByZeroWritten ==
    /\ converter = "tf" =>
          \A f \in TfRecordFiles : \A i \in 1..Len(fs[f]) : RecordDivides(fs[f][i])
    /\ converter = "yolo" =>
          \A i \in 1..Len(extractor.items) : \A n \in YoloPath_SUBSET_NAMES :
              AnnotationPath(n, extractor.items[i].id) \in DOMAIN fs =>
                  has_image(extractor.items[i])

(***************************************************************************)
(* Claims about the importer.                                              *)
(***************************************************************************)
SubsetWords == {<<"train">>, <<"val">>}

Listing == IF ann_dir = None THEN <<>> ELSE ann_dir[1]

\* the files '<task>_<subset>.json' of the directory with a task of the
\* vocabulary, as <<task, subset>> pairs
KnownFiles ==
    {ts \in TaskWords \X SubsetWords : FileName(ts[1], ts[2], "json") \in Range(Listing)}

\* every '.json' file of the directory is such a file
OnlyKnownJson ==
    \A f \in Range(Listing) :
        f[Len(f)] = "json" =>
            \E ts \in TaskWords \X SubsetWords : f = FileName(ts[1], ts[2], "json")

Str(words) == Join(Words(words))

\* C7: every file '<task>_<subset>.json' with a task of the vocabulary is
\* recorded under its subset and, there, under its task; other extensions are
\* ignored; one source is registered per (subset, task) pair found, named
\* after the file's base name, with the file path, the extractor kind of the
\* task and the options passed through.
C7_DiscoveryBySubsetAndTask ==
    /\ (OnlyKnownJson /\ KnownFiles /= {}) => imp_pc /= "failed"
    /\ imp_pc = "done" =>
        /\ \A ts \in KnownFiles :
            LET task == Str(ts[1])
                subset == Str(ts[2])
            IN  /\ HasKey(found, subset)
                /\ HasKey(DictAt(found, subset), task)
                /\ Join(DictAt(DictAt(found, subset), task))
                      = "annotations/" \o task \o "_" \o subset \o ".json"
                /\ HasKey(sources, task \o "_" \o subset)
                /\ DictAt(sources, task \o "_" \o subset) =
                      [url |-> "annotations/" \o task \o "_" \o subset \o ".json",
                       format |-> _COCO_EXTRACTORS(task),
                       options |-> extra_params]
        /\ Len(sources) = Cardinality(KnownFiles)
        /\ Len(FoundPairs(found)) = Cardinality(KnownFiles)
        /\ FileName(<<"labels">>, <<"train">>, "json") \in Range(Listing) =>
              HasKey(DictAt(found, "train"), "labels")
        /\ FileName(<<"person", "keypoints">>, <<"val">>, "json") \in Range(Listing) =>
              HasKey(DictAt(found, "val"), "person_keypoints")

\* labels_train.json and person_keypoints_val.json registered, a .txt ignored
C7_Witness ==
    /\ imp_pc = "done"
    /\ FileName(<<"instances">>, <<"train">>, "txt") \in Range(Listing)
    /\ OdKeys(sources) = <<"labels_train", "person_keypoints_val">>
    /\ DictAt(sources, "person_keypoints_val").format = "coco_person_kp"
    /\ DictAt(DictAt(found, "val"), "person_keypoints")
          = <<"annotations", "/", "person", "_", "keypoints", "_", "val", ".", "json">>

Raised(type) == imp_pc = "failed" /\ imp_error[1].type = type

\* C8: a '.json' file with a task outside the vocabulary ends the import with
\* the unknown-task error, which names the token and the whole vocabulary; a
\* missing annotations directory with the directory error; no subset found
\* with the no-dataset error; and a failed import has registered no source.
C8_ImportErrors ==
    imp_pc \in {"done", "failed"} =>
      /\ FileName(<<"foo">>, <<"train">>, "json") \in Range(Listing) =>
            /\ Raised("Exception")
            /\ imp_error[1].msg[1] = "Unknown subset type "
            /\ imp_error[1].msg[2] = "foo"
            /\ \A t \in TaskWords : Str(t) \in Range(imp_error[1].msg)
      /\ ann_dir = None => Raised("NotADirectoryError")
      /\ (ann_dir /= None /\ \A f \in Range(Listing) : f[Len(f)] /= "json") =>
            /\ Raised("Exception")
            /\ imp_error[1].msg[1] = "Failed to find 'coco' dataset at "
      /\ imp_pc = "failed" => sources = <<>>

(***************************************************************************)
(* Annotation files the extractor is constructed on.                       *)
(***************************************************************************)
CatIds == 0..MaxCatId

\* the categories of a file: distinct ids
CategoryLists ==
    { [i \in 1..Len(ids) |->
          [id |-> ids[i], name |-> IF ids[i] % 2 = 0 THEN Cat ELSE Dog]] :
        ids \in {s \in SeqsUpTo(CatIds, MaxLabels) : Distinct(s)} }

\* category_id of a raw record: absent, 0 or any id
CategoryIdsOfRecords == {None} \cup {Some(c) : c \in CatIds}

\* the raw records of a labels file
LabelRecords == [id : {7}, category_id : CategoryIdsOfRecords, score : {None}]

\* the raw records of an instances file (no segmentation)
InstanceRecords ==
    [id : {7}, category_id : CategoryIdsOfRecords, score : {None},
     bbox : {SmallBox}, iscrowd : {0}, segmentation : {None}]

\* segmentations: a list of n polygon parts, an uncompressed and a compressed
\* run-length encoding of a 2x4 mask
PolygonParts(n) == [k \in 1..n |-> <<0, 0, k, 0, k, 1>>]

PolygonSegmentation(n) ==
    [is_list |-> TRUE, parts |-> PolygonParts(n), counts_is_list |-> FALSE,
     counts |-> <<>>, size |-> <<>>]

UncompressedRle ==
    [is_list |-> FALSE, parts |-> <<>>, counts_is_list |-> TRUE,
     counts |-> <<0, 2, 6>>, size |-> <<2, 4>>]

CompressedRle ==
    [is_list |-> FALSE, parts |-> <<>>, counts_is_list |-> FALSE,
     counts |-> <<26>>, size |-> <<2, 4>>]

Segmentations ==
    {None, Some(UncompressedRle), Some(CompressedRle)}
    \cup {Some(PolygonSegmentation(n)) : n \in 0..MaxParts}

\* the raw records of an instances file with segmentations, of a file whose
\* one category has id 1
SegmentedRecords ==
    [id : {7, 8}, category_id : {None, Some(1)}, score : {None},
     bbox : {SmallBox}, iscrowd : {0}, segmentation : Segmentations]

\* mask_utils.frPyObjects takes at least one part
Mergeable(anns) ==
    \A k \in 1..Len(anns) :
        anns[k].segmentation /= None /\ anns[k].segmentation[1].is_list
            => Len(anns[k].segmentation[1].parts) > 0

\* the raw records of a person_keypoints file: one keypoint, with or
\* without a box
KeypointRecords ==
    [id : {7}, category_id : CategoryIdsOfRecords, score : {None},
     keypoints : {<<1, 2, 2>>}, bbox : {None, Some(SmallBox)}]

CaptionRecords == [id : {7}, caption : {"a cat"}, score : {None, Some(1)}]

\* the raw records of an image_info file
InfoRecords == [id : {7}]

InitExtractor ==
    /\ \/ /\ _task = "labels"
          /\ dataset \in [categories : CategoryLists,
                          annotations : SeqsUpTo(LabelRecords, MaxAnns)]
          /\ _merge_instance_polygons = FALSE
       \/ /\ _task = "instances"
          /\ dataset \in [categories : CategoryLists,
                          annotations : SeqsUpTo(InstanceRecords, MaxAnns)]
          /\ _merge_instance_polygons = FALSE
       \/ /\ _task = "instances"
          /\ dataset \in [categories : {<<[id |-> 1, name |-> Cat]>>},
                          annotations : SeqsUpTo(SegmentedRecords, MaxAnns)]
          /\ _merge_instance_polygons \in BOOLEAN
          /\ _merge_instance_polygons => Mergeable(dataset.annotations)
       \/ /\ _task = "person_keypoints"
          /\ dataset \in [categories : CategoryLists,
                          annotations : SeqsUpTo(KeypointRecords, 1)]
          /\ _merge_instance_polygons = FALSE
       \/ /\ _task = "captions"
          /\ dataset \in [categories : {<<>>},
                          annotations : SeqsUpTo(CaptionRecords, MaxAnns)]
          /\ _merge_instance_polygons = FALSE
       \/ /\ _task = "image_info"
          /\ dataset \in [categories : {<<>>},
                          annotations : SeqsUpTo(InfoRecords, 1)]
          /\ _merge_instance_polygons = FALSE
    /\ loaders = <<>>
    /\ _categories = None
    /\ _label_map = None
    /\ ext_pc = "new"
    /\ fetched = None
    /\ ext_error = None
    /\ converter = "none"
    /\ save_images = FALSE
    /\ extractor = Source(<<>>, <<>>, <<>>, "python")
    /\ ConvIdle
    /\ ImpIdle
    /\ MaskIdle

SpecExtractor == InitExtractor /\ [][NextExtractor]_vars

\* the 0-based position of the category of id c in the file
IndexOfCategory(c) ==
    (CHOOSE i \in 1..Len(dataset.categories) : dataset.categories[i].id = c) - 1

CategoryIds == {dataset.categories[i].id : i \in 1..Len(dataset.categories)}

\* a record whose category id is neither 0 nor absent nor in the table
Mismatched(ann) ==
    ann.category_id /= None /\ ann.category_id[1] /= 0
    /\ ann.category_id[1] \notin CategoryIds

\* n times the element e
Times(n, e) == [k \in 1..n |-> e]

\* the kinds of annotation a raw record decodes to, in order
ExpectedTypes(ann) ==
    IF _task = "person_keypoints"
        THEN <<"points">> \o (IF ann.bbox /= None THEN <<"bbox">> ELSE <<>>)
    ELSE IF _task = "instances" THEN
        IF ann.segmentation = None THEN <<"bbox">>
        ELSE IF ann.segmentation[1].is_list
            THEN Times(Len(ann.segmentation[1].parts), "polygon")
                 \o (IF _merge_instance_polygons THEN <<"mask">> ELSE <<>>)
                 \o <<"bbox">>
        ELSE <<"mask", "bbox">>
    ELSE <<"label">>

\* the number of annotations a raw record decodes to
Decoded(ann) == Len(ExpectedTypes(ann))

RECURSIVE DecodedBefore(_, _)
DecodedBefore(anns, k) ==
    IF k = 1 THEN 0 ELSE DecodedBefore(anns, k - 1) + Decoded(anns[k - 1])

\* C9: for the records of every task that carries labels, a category id that
\* is 0 or absent decodes to label None; otherwise an id of the table built
\* at category load decodes to the position of its category; otherwise the
\* fetch of the item fails with an error and yields no annotation.
C9_LabelResolution ==
    (HasLabelLoader(_task) /\ ext_pc \in {"fetched", "failed"}) =>
        LET anns == dataset.annotations
        IN  IF \E k \in 1..Len(anns) : Mismatched(anns[k])
            THEN ext_pc = "failed" /\ ext_error = Some("KeyError") /\ fetched = None
            ELSE /\ ext_pc = "fetched"
                 /\ Len(fetched[1]) = DecodedBefore(anns, Len(anns) + 1)
                 /\ \A k \in 1..Len(anns) :
                      \A d \in 1..Decoded(anns[k]) :
                        fetched[1][DecodedBefore(anns, k) + d].label =
                          IF anns[k].category_id \in {None, Some(0)} THEN None
                          ELSE Some(IndexOfCategory(anns[k].category_id[1]))

\* categories of ids 3 and 1: id 1 decodes to index 1, id 0 to None
C9_Witness ==
    /\ _task = "labels"
    /\ ext_pc = "fetched"
    /\ Len(dataset.categories) = 2
    /\ dataset.categories[1].id = 3
    /\ dataset.categories[2].id = 1
    /\ Len(fetched[1]) = 2
    /\ dataset.annotations[1].category_id = Some(1)
    /\ fetched[1][1].label = Some(1)
    /\ dataset.annotations[2].category_id = Some(0)
    /\ fetched[1][2].label = None

(***************************************************************************)
(* Masks that are compared.                                                *)
(***************************************************************************)
MaskSizes == {<<1, 2>>, <<2, 1>>}

\* the encodings of a mask of two pixels in up to MaxRuns runs
Rles ==
    { r \in [size : MaskSizes,
             counts : UNION {[1..k -> 0..2] : k \in 1..MaxRuns}] :
        Len(decode(r).pixels) = 2 }

RleMasks ==
    [class : {"RleMask"}, rle : Rles, label : {None, Some(0)}, id : {None},
     group : {None}]

ArrayMasks ==
    [class : {"MaskObject"}, image : {decode(r) : r \in Rles},
     label : {None, Some(0)}, id : {None}, group : {None}]

InitMask ==
    /\ masks \in RleMasks \X (RleMasks \cup ArrayMasks)
    /\ eq_result = None
    /\ converter = "none"
    /\ save_images = FALSE
    /\ extractor = Source(<<>>, <<>>, <<>>, "python")
    /\ ConvIdle
    /\ ImpIdle
    /\ ExtIdle

SpecMask == InitMask /\ [][NextMask]_vars

BothRle == masks /= <<>> /\ masks[2].class = "RleMask"

\* C10: two masks built from run-length encodings compare equal exactly when
\* the encodings are identical, whatever their decoded pixels are.
C10_RleMaskEquality ==
    (BothRle /\ eq_result /= None) =>
        \A i \in 1..Len(eq_result) :
            eq_result[i] <=> (masks[1].rle = masks[2].rle)

\* two encodings of the same pixels compared both ways, unequal
C10_Witness ==
    /\ BothRle
    /\ masks[1].rle /= masks[2].rle
    /\ decode(masks[1].rle) = decode(masks[2].rle)
    /\ eq_result = <<FALSE, FALSE>>

(***************************************************************************)
(* The label table of the line format.                                     *)
(***************************************************************************)
\* C11: for every label table, duplicate names included, obj.names holds the
\* name of category i on line i and one line per category, 'classes' in
\* obj.data is the number of categories, and every label id written in an
\* annotation line refers to an obj.names line holding that label's name.
C11_LabelTableStable ==
    (converter = "yolo" /\ "obj.names" \in DOMAIN fs) =>
      /\ fs["obj.names"] = extractor.categories
      /\ "obj.data" \in DOMAIN fs =>
            fs["obj.data"][1] =
                "classes = " \o ToString(Len(extractor.categories))
      /\ ItemWritten =>
            \A k \in 1..Len(TheFile) :
                LET l == ReadLine(TheFile[k]).label
                IN  /\ l < Len(fs["obj.names"])
                    /\ fs["obj.names"][l + 1] = extractor.categories[l + 1]

(***************************************************************************)
(* The annotations of an instances record.                                 *)
(***************************************************************************)
\* the annotations the k-th raw record of the fetched item decoded to
Slice(k) ==
    LET anns == dataset.annotations
    IN  SubSeq(fetched[1], DecodedBefore(anns, k) + 1, DecodedBefore(anns, k + 1))

CountOf(slice, type) == Cardinality({i \in 1..Len(slice) : slice[i].type = type})

\* C12: every instances record yields exactly one Bbox from its box; a
\* segmentation that is a list of n polygon parts adds exactly n Polygons and
\* one merged Mask iff the merge option is enabled; a run-length encoded
\* segmentation, uncompressed or compressed, adds exactly one Mask and no
\* Polygon; without a segmentation only the Bbox is yielded, with no group.
\* The annotations of a record with a segmentation carry the record's id as
\* their group and the same label.
C12_InstancesDecode ==
    (_task = "instances" /\ ext_pc = "fetched") =>
        LET anns == dataset.annotations
        IN  /\ Len(fetched[1]) = DecodedBefore(anns, Len(anns) + 1)
            /\ \A k \in 1..Len(anns) :
                LET ann == anns[k]
                    seg == ann.segmentation
                    slice == Slice(k)
                    boxes == SelectSeq(slice, LAMBDA a : a.type = "bbox")
                IN  /\ Len(boxes) = 1
                    /\ boxes[1].points = ann.bbox
                    /\ \A i \in 1..Len(slice) :
                          slice[i].type \in {"bbox", "polygon", "mask"}
                    /\ seg = None =>
                          /\ Len(slice) = 1
                          /\ boxes[1].group = None
                    /\ (seg /= None /\ seg[1].is_list) =>
                          /\ CountOf(slice, "polygon") = Len(seg[1].parts)
                          /\ CountOf(slice, "mask") =
                                IF _merge_instance_polygons THEN 1 ELSE 0
                    /\ (seg /= None /\ ~seg[1].is_list) =>
                          /\ CountOf(slice, "polygon") = 0
                          /\ CountOf(slice, "mask") = 1
                    /\ seg /= None =>
                          \A i \in 1..Len(slice) :
                              /\ slice[i].group = Some(ann.id)
                              /\ slice[i].label = slice[1].label

\* with the merge option, a record of two polygon parts gives two Polygons,
\* one Mask and one Bbox of group 7; an uncompressed encoding gives a Mask
\* and a Bbox of group 8
C12_Witness ==
    /\ _task = "instances"
    /\ ext_pc = "fetched"
    /\ _merge_instance_polygons
    /\ Len(dataset.annotations) = 2
    /\ dataset.annotations[1].id = 7
    /\ dataset.annotations[1].segmentation = Some(PolygonSegmentation(2))
    /\ dataset.annotations[2].id = 8
    /\ dataset.annotations[2].segmentation = Some(UncompressedRle)
    /\ Len(fetched[1]) = 6
    /\ [i \in 1..6 |-> fetched[1][i].type]
          = <<"polygon", "polygon", "mask", "bbox", "mask", "bbox">>
    /\ \A i \in 1..4 : fetched[1][i].group = Some(7)
    /\ \A i \in 5..6 : fetched[1][i].group = Some(8)

(***************************************************************************)
(* The loader the label categories come from.                              *)
(***************************************************************************)
\* the id the categories of a task's file start with
FirstCategoryId(t) ==
    IF t = "labels" THEN 1 ELSE IF t = "instances" THEN 2 ELSE 3

\* the files a loader of task t may hold: no categories for the tasks
\* without them, else a list that tells the task
LoaderFiles(t) ==
    IF t \in {"captions", "image_info"}
    THEN {[categories |-> <<>>, annotations |-> <<>>]}
    ELSE {[categories |-> c, annotations |-> <<>>] :
            c \in {l \in CategoryLists :
                      l = <<>> \/ l[1].id = FirstCategoryId(t)}}

AllTasks == <<"instances", "person_keypoints", "labels", "captions", "image_info">>

\* the dictionaries of loaders over a set of tasks, keys in the order of ts
RECURSIVE LoaderDicts(_)
LoaderDicts(ts) ==
    IF ts = <<>> THEN {<<>>}
    ELSE LET rest == LoaderDicts(Tail(ts))
         IN  rest \cup { <<<<Head(ts), f>>>> \o d : f \in LoaderFiles(Head(ts)), d \in rest }

InitCategories ==
    /\ loaders \in LoaderDicts(AllTasks) \ {<<>>}
    /\ _task = "none"
    /\ dataset = [categories |-> <<>>, annotations |-> <<>>]
    /\ _categories = None
    /\ _label_map = None
    /\ ext_pc = "loaders"
    /\ fetched = None
    /\ ext_error = None
    /\ _merge_instance_polygons = FALSE
    /\ converter = "none"
    /\ save_images = FALSE
    /\ extractor = Source(<<>>, <<>>, <<>>, "python")
    /\ ConvIdle
    /\ ImpIdle
    /\ MaskIdle

SpecCategories == InitCategories /\ [][NextCategories]_vars

\* the label table of a file: the names in category order and the index of
\* every category id
TableOf(data) ==
    [categories |-> Some([i \in 1..Len(data.categories) |-> data.categories[i].name]),
     label_map |-> Some([i \in 1..Len(data.categories) |->
                            <<data.categories[i].id, i - 1>>])]

NoTable == [categories |-> None, label_map |-> None]

\* the table built from the first task of `order` that is loaded, none when
\* no task of `order` is loaded
RECURSIVE TableByPreference(_)
TableByPreference(order) ==
    IF order = <<>> THEN NoTable
    ELSE IF HasKey(loaders, Head(order)) THEN TableOf(DictAt(loaders, Head(order)))
    ELSE TableByPreference(Tail(order))

Loaded(order) ==
    ext_pc = "loaded" =>
        /\ _categories = TableByPreference(order).categories
        /\ _label_map = TableByPreference(order).label_map

====
